---- MODULE Spec2Model ----
\* Model of src/sample.cpp: the SPIR-V patcher (readFile, writeFile,
\* InstrBuilder, outputPatched, main).
\*
\* A 32-bit word (u32) is the pair <<hi, lo>> of its two 16-bit halves, so that
\* every operation keeps its 32-bit width.  A stream is a sequence of words;
\* the code's offsets are 0-based, the sequences here are 1-based.
EXTENDS Integers, Sequences, FiniteSets, TLC

VARIABLES
    pc,          \* position of the program (main / readFile / outputPatched / writeFile)
    input,       \* the input file on disk: [words, tail], tail = bytes after the last whole word
    rfile,       \* FILE* of readFile: "none", "open" or "closed"
    wfile,       \* FILE* of writeFile: "none", "open" or "closed"
    fsize,       \* readFile's fsize (bytes), -1 before ftell
    spirv,       \* main's vector returned by readFile
    readErr,     \* the call that made readFile return {}, "" when none did
    ir,          \* the ParsedIR handed to outputPatched
    file,        \* outputPatched's file argument
    line,        \* outputPatched's line argument
    copy,        \* outputPatched's working copy of ir.spirv
    lb,          \* index (0-based) std::lower_bound returned, -1 before the search
    inexact,     \* whether "no exact match found" was printed
    outFile,     \* out.spv on disk: [exists, data], data its bytes
    fail,        \* the failure that ended the run, "" when none
    dst,         \* the stream an InstrBuilder inserts into
    alive,       \* whether an InstrBuilder object exists
    op,          \* InstrBuilder::op
    vals,        \* InstrBuilder::vals
    charSigned,  \* whether the build's plain char is signed
    orig,        \* history: the stream before any insertion
    hist,        \* history: the insertions made, [off, n, op, words]
    tags,        \* history: for each word of dst, where it came from
    pushed       \* history: the last push(string_view), [kind, text, base]

vars == <<pc, input, rfile, wfile, fsize, spirv, readErr, ir, file, line, copy,
          lb, inexact, outFile, fail, dst, alive, op, vals, charSigned, orig,
          hist, tags, pushed>>

-----------------------------------------------------------------------------
\* Words

Half == 65536

W(hi, lo) == <<hi, lo>>

Hi(w) == w[1]

Lo(w) == w[2]

\* conversion of an int (or size_t) to u32: the value modulo 2^32
ToU32(x) == W((x \div Half) % Half, x % Half)

RECURSIVE BitOr16(_, _)
BitOr16(a, b) ==
    IF a = 0 THEN b
    ELSE IF b = 0 THEN a
    ELSE (IF a % 2 = 1 \/ b % 2 = 1 THEN 1 ELSE 0)
         + 2 * BitOr16(a \div 2, b \div 2)

\* a | b on u32
Or32(a, b) == W(BitOr16(Hi(a), Hi(b)), BitOr16(Lo(a), Lo(b)))

\* a << k on 32 bits
RECURSIVE Shl32(_, _)
Shl32(a, k) ==
    IF k = 0 THEN a
    ELSE Shl32(W((Hi(a) * 2 + Lo(a) \div 32768) % Half, (Lo(a) * 2) % Half), k - 1)

\* the value of a char read from a string_view, as the int it is promoted to
CharValue(c, signed) == IF signed /\ c >= 128 THEN c - 256 ELSE c

-----------------------------------------------------------------------------
\* SPIR-V enumerators used by the code

OpExtension == 10

OpCapability == 17

AddressingModelLogical == 0

AddressingModelPhysicalStorageBuffer64 == 5348

CapabilityPhysicalStorageBufferAddresses == 5347

\* "SPV_KHR_physical_storage_buffer"
ExtensionName ==
    <<83, 80, 86, 95, 75, 72, 82, 95, 112, 104, 121, 115, 105, 99, 97, 108, 95,
      115, 116, 111, 114, 97, 103, 101, 95, 98, 117, 102, 102, 101, 114>>

-----------------------------------------------------------------------------
\* InstrBuilder

\* std::vector<u32> vals {0}
NewVals == <<W(0, 0)>>

\* push(T val): vals.push_back(u32(val))
PushVal(v, val) == Append(v, ToU32(val))

\* One iteration of push(string_view)'s loop: the word packed from the bytes
\* at 0-based positions i .. i+3 of text.
PackWord(text, i, signed) ==
    LET byte(j) == ToU32(CharValue(text[j + 1], signed))
        r0 == byte(i)
        r1 == IF i + 1 < Len(text) THEN Or32(r0, Shl32(byte(i + 1), 8)) ELSE r0
        r2 == IF i + 2 < Len(text) THEN Or32(r1, Shl32(byte(i + 2), 16)) ELSE r1
        r3 == IF i + 3 < Len(text) THEN Or32(r2, Shl32(byte(i + 3), 24)) ELSE r2
    IN  r3

\* push(string_view val): one word per iteration i = 0, 4, 8, .. while i < size
PushText(v, text, signed) ==
    v \o [k \in 1 .. ((Len(text) + 3) \div 4) |-> PackWord(text, 4 * (k - 1), signed)]

\* vals[0] = u16(vals.size()) << 16 | u16(op), u16 being std::uint32_t
HeaderWord(n, opcode) == Or32(Shl32(ToU32(n), 16), ToU32(opcode))

\* a header that leaves the word count out
SetHeaderNoCount(v, opcode) == [v EXCEPT ![1] = ToU32(opcode)]

SetHeader(v, opcode) == [v EXCEPT ![1] = HeaderWord(Len(v), opcode)]

\* a splice that overwrites the words at off instead of shifting them
InsertAtOverwrite(s, off, ws) ==
    SubSeq(s, 1, off) \o ws \o SubSeq(s, off + Len(ws) + 1, Len(s))

\* dst.insert(dst.begin() + off, first, last)
InsertAt(s, off, ws) == SubSeq(s, 1, off) \o ws \o SubSeq(s, off + 1, Len(s))

\* assert(dst.size() >= off)
InsertOffsetOk(s, off) == Len(s) >= off

-----------------------------------------------------------------------------
\* Bounds and inputs of the builder specifications

MaxInserts == 2

MaxStaged == 1

MaxTextLen == 5

MaxInstrs == 1

\* byte values a text is made of: one below and one above 0x7f
TextBytes == {65, 200}

RECURSIVE SeqsUpTo(_, _)
SeqsUpTo(S, n) ==
    IF n = 0 THEN {<<>>}
    ELSE LET shorter == SeqsUpTo(S, n - 1)
         IN  shorter \cup {Append(t, x) : t \in {u \in shorter : Len(u) = n - 1}, x \in S}

AllTexts == SeqsUpTo(TextBytes, MaxTextLen) \cup {ExtensionName}

\* the texts and operands the lifecycle specification pushes
SomeTexts == {<<65, 66, 67, 68, 69>>}

SomeOperands == {CapabilityPhysicalStorageBufferAddresses}

Opcodes == {OpExtension, OpCapability}

\* the opcode the lifecycle specification builds with
BuilderOpcodes == {OpCapability}

\* well-formed instructions (header word: word count << 16 | opcode) ...
SomeInstrs ==
    { <<W(1, 1)>>,
      <<W(2, OpCapability), W(0, 1)>> }

RECURSIVE Flatten(_)
Flatten(ss) == IF ss = <<>> THEN <<>> ELSE Head(ss) \o Flatten(Tail(ss))

\* ... and the streams made of at most MaxInstrs of them
InitStreams == {Flatten(ss) : ss \in SeqsUpTo(SomeInstrs, MaxInstrs)}

NoPush == [kind |-> "none", text |-> <<>>, base |-> 0]

OrigTags(s) == [j \in 1 .. Len(s) |-> <<0, j - 1>>]

InsTags(k, n) == [i \in 1 .. n |-> <<k, i - 1>>]

-----------------------------------------------------------------------------
\* Actions of InstrBuilder

\* InstrBuilder{op}: a temporary with vals = {0}
Begin(o) ==
    /\ fail = "" /\ ~alive
    /\ Len(hist) < MaxInserts
    /\ alive' = TRUE
    /\ op' = o
    /\ vals' = NewVals
    /\ pushed' = NoPush
    /\ UNCHANGED <<dst, orig, hist, tags, charSigned, fail>>

PushInt(val) ==
    /\ fail = "" /\ alive
    /\ Len(vals) <= MaxStaged
    /\ vals' = PushVal(vals, val)
    /\ pushed' = NoPush
    /\ UNCHANGED <<dst, alive, op, orig, hist, tags, charSigned, fail>>

PushString(text) ==
    /\ fail = "" /\ alive
    /\ Len(vals) <= MaxStaged
    /\ vals' = PushText(vals, text, charSigned)
    /\ pushed' = [kind |-> "text", text |-> text, base |-> Len(vals)]
    /\ UNCHANGED <<dst, alive, op, orig, hist, tags, charSigned, fail>>

\* insert(dst, off), then the temporary's destructor (vals is empty there)
Insert(off) ==
    /\ fail = "" /\ alive
    /\ InsertOffsetOk(dst, off)
    /\ dst' = InsertAt(dst, off, SetHeader(vals, op))
    /\ vals' = <<>>
    /\ alive' = FALSE
    /\ op' = 0
    /\ pushed' = NoPush
    /\ hist' = Append(hist, [off |-> off, n |-> Len(vals), op |-> op,
                             words |-> SetHeader(vals, op)])
    /\ tags' = InsertAt(tags, off, InsTags(Len(hist) + 1, Len(vals)))
    /\ UNCHANGED <<orig, charSigned, fail>>

\* insert(dst, off) with off beyond the stream: the assert aborts the process
InsertAssert(off) ==
    /\ fail = "" /\ alive
    /\ ~InsertOffsetOk(dst, off)
    /\ fail' = "InvalidOffset"
    /\ UNCHANGED <<dst, alive, op, vals, orig, hist, tags, pushed, charSigned>>

NoIR == [spirv |-> <<>>, memModel |-> 0, caps |-> 0, exts |-> 0, sources |-> <<>>]

NoFile == [exists |-> FALSE, data |-> <<>>]

ProgIdle ==
    /\ pc = "none" /\ input = [words |-> <<>>, tail |-> 0]
    /\ rfile = "none" /\ wfile = "none"
    /\ fsize = -1 /\ spirv = <<>> /\ readErr = ""
    /\ ir = NoIR
    /\ file = 0 /\ line = 0 /\ copy = <<>> /\ lb = -1 /\ inexact = FALSE
    /\ outFile = NoFile

progRest == <<pc, input, rfile, wfile, fsize, spirv, readErr, ir, file, line,
              copy, lb, inexact, outFile>>

BuilderIdle ==
    /\ dst = <<>> /\ orig = <<>> /\ tags = <<>>
    /\ alive = FALSE /\ op = 0 /\ vals = <<>>
    /\ hist = <<>>
    /\ pushed = NoPush

\* The builder's lifecycle on a well-formed stream
InitBuilder ==
    /\ ProgIdle
    /\ fail = ""
    /\ dst \in InitStreams
    /\ orig = dst
    /\ tags = OrigTags(dst)
    /\ alive = FALSE /\ op = 0 /\ vals = <<>>
    /\ hist = <<>>
    /\ pushed = NoPush
    /\ charSigned \in BOOLEAN

BuilderBegin == \E o \in BuilderOpcodes : Begin(o) /\ UNCHANGED progRest

BuilderPushInt == \E v \in SomeOperands : PushInt(v) /\ UNCHANGED progRest

BuilderPushString == \E t \in SomeTexts : PushString(t) /\ UNCHANGED progRest

BuilderInsert == \E off \in 0 .. Len(dst) + 1 : Insert(off) /\ UNCHANGED progRest

BuilderInsertAssert ==
    \E off \in 0 .. Len(dst) + 1 : InsertAssert(off) /\ UNCHANGED progRest

NextBuilder ==
    \/ BuilderBegin
    \/ BuilderPushInt
    \/ BuilderPushString
    \/ BuilderInsert
    \/ BuilderInsertAssert

SpecBuilder == InitBuilder /\ [][NextBuilder]_vars

\* One insert of a builder that holds n staged words
StagedSizes == {1, 2, 3, 65535, 65536, 65537}

Staged(n) == [i \in 1 .. n |-> W(0, 0)]

InitInsert ==
    /\ ProgIdle
    /\ fail = ""
    /\ dst \in InitStreams
    /\ orig = dst
    /\ tags = OrigTags(dst)
    /\ alive = TRUE
    /\ op \in Opcodes
    /\ \E n \in StagedSizes : vals = Staged(n)
    /\ hist = <<>>
    /\ pushed = NoPush
    /\ charSigned \in BOOLEAN

NextInsert ==
    \/ BuilderInsert
    \/ BuilderInsertAssert

SpecInsert == InitInsert /\ [][NextInsert]_vars

\* push(string_view) on a new builder, for every text
InitPush ==
    /\ ProgIdle
    /\ fail = ""
    /\ dst = <<>> /\ orig = <<>> /\ tags = <<>>
    /\ alive = TRUE
    /\ op \in Opcodes
    /\ vals = NewVals
    /\ hist = <<>>
    /\ pushed = NoPush
    /\ charSigned \in BOOLEAN

BuilderPushAnyString == \E t \in AllTexts : PushString(t) /\ UNCHANGED progRest

NextPush == BuilderPushAnyString

SpecPush == InitPush /\ [][NextPush]_vars

-----------------------------------------------------------------------------
\* The program: main, readFile, outputPatched, writeFile

\* the little-endian bytes of a word, and of a sequence of words (the host
\* order std::as_bytes exposes)
WordBytes(w) == <<Lo(w) % 256, Lo(w) \div 256, Hi(w) % 256, Hi(w) \div 256>>

StreamBytes(ws) == Flatten([k \in 1 .. Len(ws) |-> WordBytes(ws[k])])

\* main calls outputPatched(ir, 0, 20)
TargetFile == 0

TargetLine == 20

\* a module: the 5-word header, OpCapability Shader, OpMemoryModel a GLSL450
Module(a) ==
    <<W(1827, 515), W(1, 0), W(0, 0), W(0, 10), W(0, 0),
      W(2, OpCapability), W(0, 1),
      W(3, 14), W(0, a), W(0, 1)>>

InputFiles ==
    {[words |-> Module(a), tail |-> t] :
        a \in {AddressingModelLogical, 1, AddressingModelPhysicalStorageBuffer64},
        t \in {0, 2}}
    \cup {[words |-> <<>>, tail |-> 0]}

Marker(l, f) == [line |-> l, function |-> f]

\* the line-marker tables of file 0 the parser may hand over (function 0: none)
MainTables ==
    { <<>>,
      <<Marker(5, 1), Marker(5, 1), Marker(10, 2), Marker(20, 2)>>,
      <<Marker(5, 1), Marker(10, 1)>>,
      <<Marker(10, 1), Marker(30, 2)>>,
      <<Marker(20, 0)>> }

\* what parse() may produce from the words: the words themselves, anchors
\* inside them (insertion anchors up to one past the end), and the sources
ParsedIRs(words) ==
    {[spirv |-> words, memModel |-> mm, caps |-> c, exts |-> e, sources |-> src] :
        mm \in 0 .. Len(words) - 2,
        c \in 0 .. Len(words) + 1,
        e \in 0 .. Len(words) + 1,
        src \in {<<>>} \cup {<<t>> : t \in MainTables}}

builderAll == <<dst, alive, op, vals, orig, hist, tags, pushed, charSigned>>

\* ---- readFile

\* fopen fails: return {}
ReadOpenFail ==
    /\ pc = "main"
    /\ pc' = "returned" /\ readErr' = "fopen" /\ spirv' = <<>>
    /\ UNCHANGED <<input, rfile, wfile, fsize, ir, file, line, copy, lb, inexact,
                   outFile, fail, builderAll>>

ReadOpen ==
    /\ pc = "main"
    /\ rfile' = "open" /\ pc' = "seekEnd"
    /\ UNCHANGED <<input, wfile, fsize, spirv, readErr, ir, file, line, copy, lb,
                   inexact, outFile, fail, builderAll>>

\* a failing call between fopen and the end: printf, return {}
ReadReturnEmpty(at, err) ==
    /\ pc = at
    /\ pc' = "returned" /\ readErr' = err /\ spirv' = <<>>
    /\ UNCHANGED <<input, rfile, wfile, fsize, ir, file, line, copy, lb, inexact,
                   outFile, fail, builderAll>>

ReadStep(at, to) ==
    /\ pc = at
    /\ pc' = to
    /\ UNCHANGED <<input, rfile, wfile, fsize, spirv, readErr, ir, file, line,
                   copy, lb, inexact, outFile, fail, builderAll>>

ReadSeekEnd == ReadStep("seekEnd", "tell")

ReadSeekEndFail == ReadReturnEmpty("seekEnd", "fseek")

ReadTell ==
    /\ pc = "tell"
    /\ fsize' = 4 * Len(input.words) + input.tail
    /\ pc' = "seekSet"
    /\ UNCHANGED <<input, rfile, wfile, spirv, readErr, ir, file, line, copy, lb,
                   inexact, outFile, fail, builderAll>>

ReadTellFail == ReadReturnEmpty("tell", "ftell")

ReadSeekSet == ReadStep("seekSet", "fread")

ReadSeekSetFail == ReadReturnEmpty("seekSet", "fseek2")

\* assert(fsize % sizeof(value_type) == 0)
ReadAlignAssert ==
    /\ pc = "fread"
    /\ fsize % 4 # 0
    /\ pc' = "aborted" /\ fail' = "Misaligned"
    /\ UNCHANGED <<input, rfile, wfile, fsize, spirv, readErr, ir, file, line,
                   copy, lb, inexact, outFile, builderAll>>

\* fread returns fsize: return buffer
ReadData ==
    /\ pc = "fread"
    /\ fsize % 4 = 0
    /\ spirv' = input.words
    /\ pc' = "returned"
    /\ UNCHANGED <<input, rfile, wfile, fsize, readErr, ir, file, line, copy, lb,
                   inexact, outFile, fail, builderAll>>

ReadDataFail ==
    /\ fsize % 4 = 0
    /\ ReadReturnEmpty("fread", "fread")

\* ---- main

\* spc::Parser parser(std::move(spirv)); parser.parse() throws (nothing
\* catches it): words too short for the 5-word header, or otherwise rejected
ParseThrow ==
    /\ pc = "returned"
    /\ pc' = "aborted" /\ fail' = "ParseError"
    /\ UNCHANGED <<input, rfile, wfile, fsize, spirv, readErr, ir, file, line,
                   copy, lb, inexact, outFile, builderAll>>

\* parse() succeeds; outputPatched(ir, 0, 20) is entered: auto copy = ir.spirv
ParseAndCall ==
    /\ pc = "returned"
    /\ Len(spirv) >= 5
    /\ ir' \in ParsedIRs(spirv)
    /\ file' = TargetFile /\ line' = TargetLine
    /\ copy' = ir'.spirv
    /\ pc' = "addressing"
    /\ UNCHANGED <<input, rfile, wfile, fsize, spirv, readErr, lb, inexact,
                   outFile, fail, builderAll>>

\* ---- outputPatched

\* an addressing step without the assert: the operand is always overwritten
PatchAddressingNoAssert(a) ==
    [abort |-> FALSE, value |-> W(0, AddressingModelPhysicalStorageBuffer64)]

\* if(addressing != PhysicalStorageBuffer64) { assert(addressing == Logical);
\* addressing = PhysicalStorageBuffer64; }
PatchAddressing(a) ==
    IF a # W(0, AddressingModelPhysicalStorageBuffer64)
    THEN IF a = W(0, AddressingModelLogical)
         THEN [abort |-> FALSE, value |-> W(0, AddressingModelPhysicalStorageBuffer64)]
         ELSE [abort |-> TRUE, value |-> a]
    ELSE [abort |-> FALSE, value |-> a]

\* auto& addressing = copy[ir.section_offsets.named.memModel + 1]
AddressingIndex == ir.memModel + 2

SetAddressing ==
    /\ pc = "addressing"
    /\ LET r == PatchAddressing(copy[AddressingIndex])
       IN  IF r.abort
           THEN /\ pc' = "aborted" /\ fail' = "UnexpectedAddressingModel"
                /\ copy' = copy
           ELSE /\ pc' = "ext" /\ fail' = fail
                /\ copy' = [copy EXCEPT ![AddressingIndex] = r.value]
    /\ UNCHANGED <<input, rfile, wfile, fsize, spirv, readErr, ir, file, line, lb,
                   inexact, outFile, builderAll>>

\* InstrBuilder{OpExtension}.push("SPV_KHR_physical_storage_buffer")
ExtensionInstr(signed) ==
    SetHeader(PushText(NewVals, ExtensionName, signed), OpExtension)

\* InstrBuilder{OpCapability}.push(CapabilityPhysicalStorageBufferAddresses)
CapabilityInstr ==
    SetHeader(PushVal(NewVals, CapabilityPhysicalStorageBufferAddresses), OpCapability)

\* .insert(copy, off) of one of the two, at pc = at
InjectAt(at, to, off, words) ==
    /\ pc = at
    /\ IF InsertOffsetOk(copy, off)
       THEN /\ copy' = InsertAt(copy, off, words)
            /\ pc' = to /\ fail' = fail
       ELSE /\ copy' = copy
            /\ pc' = "aborted" /\ fail' = "InvalidOffset"
    /\ UNCHANGED <<input, rfile, wfile, fsize, spirv, readErr, ir, file, line, lb,
                   inexact, outFile, builderAll>>

AddExtension == InjectAt("ext", "cap", ir.exts, ExtensionInstr(charSigned))

AddCapability == InjectAt("cap", "find", ir.caps, CapabilityInstr)

\* a comparison that also lets equal lines pass
CmpLessEqual(a, b) == a.line <= b

\* auto cmp = [](auto& a, auto& b) { return a.line < b; }
Cmp(a, b) == a.line < b

\* std::lower_bound over the 0-based range [first, first + len)
RECURSIVE LowerBoundFrom(_, _, _, _)
LowerBoundFrom(m, first, len, val) ==
    IF len = 0 THEN first
    ELSE LET half == len \div 2
             mid == first + half
         IN  IF Cmp(m[mid + 1], val)
             THEN LowerBoundFrom(m, mid + 1, len - half - 1, val)
             ELSE LowerBoundFrom(m, first, half, val)

LowerBound(m, val) == LowerBoundFrom(m, 0, Len(m), val)

findRest == <<input, rfile, wfile, fsize, spirv, readErr, ir, file, line, copy,
              outFile, builderAll>>

\* assert(file < ir.sources.size())
FindFileAssert ==
    /\ pc = "find"
    /\ ~(file < Len(ir.sources))
    /\ pc' = "aborted" /\ fail' = "FileIndexOutOfRange"
    /\ UNCHANGED <<lb, inexact, findRest>>

\* lb == end: "no matching line found", return
FindNoLine ==
    /\ pc = "find"
    /\ file < Len(ir.sources)
    /\ LET m == ir.sources[file + 1]
       IN  /\ LowerBound(m, line) = Len(m)
           /\ lb' = LowerBound(m, line)
    /\ pc' = "done" /\ fail' = "LineNotFound"
    /\ UNCHANGED <<inexact, findRest>>

\* assert(lb->function), after the "no exact match" message
FindFunctionAssert ==
    /\ pc = "find"
    /\ file < Len(ir.sources)
    /\ LET m == ir.sources[file + 1]
           i == LowerBound(m, line)
       IN  /\ i # Len(m)
           /\ m[i + 1].function = 0
           /\ lb' = i
           /\ inexact' = (m[i + 1].line # line)
    /\ pc' = "aborted" /\ fail' = "NoEnclosingFunction"
    /\ UNCHANGED findRest

\* the marker is found and has a function: names are printed, then writeFile
FindFunction ==
    /\ pc = "find"
    /\ file < Len(ir.sources)
    /\ LET m == ir.sources[file + 1]
           i == LowerBound(m, line)
       IN  /\ i # Len(m)
           /\ m[i + 1].function # 0
           /\ lb' = i
           /\ inexact' = (m[i + 1].line # line)
    /\ pc' = "write"
    /\ UNCHANGED <<fail, findRest>>

\* ---- writeFile("out.spv", bytes of copy, true)

writeRest == <<input, rfile, fsize, spirv, readErr, ir, file, line, copy, lb,
               inexact, builderAll>>

\* fopen fails: printf, return
WriteOpenFail ==
    /\ pc = "write"
    /\ pc' = "done" /\ fail' = "fopen"
    /\ UNCHANGED <<wfile, outFile, writeRest>>

\* fopen(path, "wb") creates or truncates the file
WriteOpen ==
    /\ pc = "write"
    /\ wfile' = "open"
    /\ outFile' = [exists |-> TRUE, data |-> <<>>]
    /\ pc' = "fwrite"
    /\ UNCHANGED <<fail, writeRest>>

\* the byte counts a failing fwrite may have written
ShortCounts(size) == {0, 1, size \div 2, size - 1} \cap (0 .. size - 1)

\* fwrite returns buffer.size()
WriteData ==
    /\ pc = "fwrite"
    /\ outFile' = [exists |-> TRUE, data |-> StreamBytes(copy)]
    /\ pc' = "fclose"
    /\ UNCHANGED <<wfile, fail, writeRest>>

\* fwrite returns less: "fwrite failed" is printed
WriteDataShort ==
    /\ pc = "fwrite"
    /\ \E k \in ShortCounts(4 * Len(copy)) :
          outFile' = [exists |-> TRUE, data |-> SubSeq(StreamBytes(copy), 1, k)]
    /\ fail' = "fwrite"
    /\ pc' = "fclose"
    /\ UNCHANGED <<wfile, writeRest>>

\* std::fclose(f); outputPatched and main return
WriteClose ==
    /\ pc = "fclose"
    /\ wfile' = "closed"
    /\ pc' = "done"
    /\ UNCHANGED <<outFile, fail, writeRest>>

Init ==
    /\ pc = "main"
    /\ input \in InputFiles
    /\ rfile = "none" /\ wfile = "none"
    /\ fsize = -1 /\ spirv = <<>> /\ readErr = ""
    /\ ir = NoIR
    /\ file = 0 /\ line = 0 /\ copy = <<>> /\ lb = -1 /\ inexact = FALSE
    /\ outFile = NoFile
    /\ fail = ""
    /\ BuilderIdle
    /\ charSigned \in BOOLEAN

Next ==
    \/ ReadOpenFail
    \/ ReadOpen
    \/ ReadSeekEnd
    \/ ReadSeekEndFail
    \/ ReadTell
    \/ ReadTellFail
    \/ ReadSeekSet
    \/ ReadSeekSetFail
    \/ ReadAlignAssert
    \/ ReadData
    \/ ReadDataFail
    \/ ParseThrow
    \/ ParseAndCall
    \/ SetAddressing
    \/ AddExtension
    \/ AddCapability
    \/ FindFileAssert
    \/ FindNoLine
    \/ FindFunctionAssert
    \/ FindFunction
    \/ WriteOpenFail
    \/ WriteOpen
    \/ WriteData
    \/ WriteDataShort
    \/ WriteClose

Spec == Init /\ [][Next]_vars

\* The source-location step of outputPatched, for every table, file and line
MaxMarkers == 4

LineValues == {5, 10, 20}

TargetLines == {0, 5, 7, 10, 20, 25}

NonDecreasing(m) == \A i \in 1 .. Len(m) - 1 : m[i].line <= m[i + 1].line

\* line_markers of one file: ordered by non-decreasing line
MarkerTables ==
    {m \in SeqsUpTo({Marker(l, f) : l \in LineValues, f \in {0, 1}}, MaxMarkers) :
        NonDecreasing(m)}

InitLookup ==
    /\ pc = "find"
    /\ input = [words |-> <<>>, tail |-> 0]
    /\ rfile = "none" /\ wfile = "none"
    /\ fsize = -1 /\ spirv = <<>> /\ readErr = ""
    /\ \E src \in {<<>>} \cup {<<t>> : t \in MarkerTables} :
          ir = [NoIR EXCEPT !.sources = src]
    /\ file \in {0, 1}
    /\ line \in TargetLines
    /\ copy = <<>> /\ lb = -1 /\ inexact = FALSE
    /\ outFile = NoFile
    /\ fail = ""
    /\ BuilderIdle
    /\ charSigned \in BOOLEAN

NextLookup ==
    \/ FindFileAssert
    \/ FindNoLine
    \/ FindFunctionAssert
    \/ FindFunction

SpecLookup == InitLookup /\ [][NextLookup]_vars

-----------------------------------------------------------------------------
\* Claims about InstrBuilder

\* s is exactly partitioned into instructions, from 1-based index i on: each
\* starts with a header whose high 16 bits are its word span
RECURSIVE PartitionedFrom(_, _)
PartitionedFrom(s, i) ==
    IF i = Len(s) + 1 THEN TRUE
    ELSE /\ Hi(s[i]) >= 1
         /\ i + Hi(s[i]) <= Len(s) + 1
         /\ PartitionedFrom(s, i + Hi(s[i]))

Partitioned(s) == PartitionedFrom(s, 1)

\* C1: a stream that is exactly partitioned into instructions is still
\* exactly partitioned after one insert of a staged instruction.
C1_InsertKeepsPartition ==
    (Partitioned(orig) /\ Len(hist) = 1) => Partitioned(dst)

\* off (0-based) is where an instruction of s starts, or the end of s
RECURSIVE BoundaryFrom(_, _, _)
BoundaryFrom(s, i, off) ==
    IF i = off + 1 THEN TRUE
    ELSE IF i > off + 1 \/ i > Len(s) THEN FALSE
    ELSE BoundaryFrom(s, i + Hi(s[i]), off)

\* Supplement to C1: what an insert between two instructions does.  It holds
\* under SpecBuilder and fails under SpecInsert, where 65536 words are staged.
InsertAtBoundaryKeepsPartition ==
    (Partitioned(orig) /\ Len(hist) = 1 /\ BoundaryFrom(orig, 1, hist[1].off))
        => Partitioned(dst)

\* C2: push(text) of a text of length L appends ceil((L+1)/4) words whose
\* little-endian bytes are the text's L bytes followed by a zero byte.
C2_PushTextPacksNulTerminated ==
    pushed.kind = "text" =>
        LET L == Len(pushed.text)
            added == SubSeq(vals, pushed.base + 1, Len(vals))
            bytes == StreamBytes(added)
        IN  /\ Len(added) = (L + 1 + 3) \div 4
            /\ SubSeq(bytes, 1, L) = pushed.text
            /\ bytes[L + 1] = 0

\* C3: every insert that goes through wrote a header with the opcode in the
\* low 16 bits and the word count in the high 16 bits, and an instruction
\* whose word count does not fit in 16 bits is not inserted.
C3_HeaderFitsOrFails ==
    \A k \in 1 .. Len(hist) :
        /\ hist[k].n < Half
        /\ Lo(hist[k].words[1]) = hist[k].op
        /\ Hi(hist[k].words[1]) = hist[k].n

\* provenance of the words around the second insertion B (0-based offset x,
\* m words): the word right after it and the word right before it
EndTag == <<-1, 0>>

OrigOrEnd(b) == IF b < Len(orig) THEN <<0, b>> ELSE EndTag

AfterB == LET x == hist[2].off
              m == hist[2].n
          IN  IF x + m < Len(tags) THEN tags[x + m + 1] ELSE EndTag

BeforeB == LET x == hist[2].off IN IF x > 0 THEN tags[x] ELSE EndTag

\* C7: A (n words) inserted at a, then B inserted at x.  For an offset b > a
\* of the original stream, B lands right before the word that sat at b
\* exactly when x = b + n; at the unadjusted x = b it lands n words early
\* (inside A when b < a + n, else right before original word b - n); at
\* x < a it lands right before original word x.
C7_StaleOffsetAfterInsert ==
    Len(hist) = 2 =>
        LET a == hist[1].off
            n == hist[1].n
            x == hist[2].off
            m == hist[2].n
        IN  /\ SubSeq(dst, x + 1, x + m) = hist[2].words
            /\ \A i \in 1 .. m : tags[x + i] = <<2, i - 1>>
            /\ \A b \in a + 1 .. Len(orig) : (AfterB = OrigOrEnd(b)) <=> (x = b + n)
            /\ (x > a /\ x <= Len(orig) /\ x < a + n) =>
                   /\ BeforeB = <<1, x - a - 1>>
                   /\ AfterB = <<1, x - a>>
            /\ (x > a /\ x <= Len(orig) /\ x >= a + n) =>
                   /\ AfterB = OrigOrEnd(x - n)
                   /\ x - n < Len(orig) => dst[x + m + 1] = orig[x - n + 1]
            /\ x < a =>
                   /\ AfterB = <<0, x>>
                   /\ dst[x + m + 1] = orig[x + 1]

C7_Witness ==
    /\ Len(hist) = 2
    /\ hist[2].off > hist[1].off
    /\ hist[2].off < hist[1].off + hist[1].n
    /\ hist[2].off <= Len(orig)

-----------------------------------------------------------------------------
\* Claims about outputPatched, readFile, writeFile and main

Physical == W(0, AddressingModelPhysicalStorageBuffer64)

Logical == W(0, AddressingModelLogical)

\* positions of outputPatched after the addressing step went through
PastAddressing == {"ext", "cap", "find", "write", "fwrite", "fclose", "done"}

\* positions after both insertions went through
PastInjection == {"find", "write", "fwrite", "fclose", "done"}

InPatch == ir # NoIR

\* C4: the addressing step overwrites the operand only when it is logical:
\* already physical-storage-buffer, the stream is left identical; logical, the
\* word becomes the target; anything else, the step fails and the operand is
\* not overwritten.
C4_AddressingPatchedOnlyFromLogical ==
    InPatch =>
        LET a == ir.spirv[AddressingIndex]
        IN  /\ pc = "ext" =>
                  \/ a = Physical /\ copy = ir.spirv
                  \/ a = Logical /\ copy = [ir.spirv EXCEPT ![AddressingIndex] = Physical]
            /\ a \notin {Physical, Logical} =>
                  /\ pc \notin PastAddressing
                  /\ pc # "addressing" =>
                        /\ pc = "aborted" /\ fail = "UnexpectedAddressingModel"
                        /\ copy = ir.spirv

C4_Witness ==
    /\ InPatch
    /\ ir.spirv[AddressingIndex] = W(0, 1)
    /\ pc = "aborted" /\ fail = "UnexpectedAddressingModel"
    /\ copy = ir.spirv

\* a text packed four bytes to a word, little-endian, with a closing zero byte
NulPacked(text) ==
    LET z == text \o <<0, 0, 0, 0>>
    IN  [k \in 1 .. (Len(text) \div 4 + 1) |->
            W(z[4 * k - 1] + 256 * z[4 * k], z[4 * k - 3] + 256 * z[4 * k - 2])]

NewCapability == <<W(2, OpCapability), W(0, CapabilityPhysicalStorageBufferAddresses)>>

NewExtension == <<W(Len(ExtensionName) \div 4 + 2, OpExtension)>> \o NulPacked(ExtensionName)

\* the original stream with the addressing operand replaced, the capability
\* before original word caps and the extension before original word exts
ExpectedPatch ==
    LET o == [ir.spirv EXCEPT ![AddressingIndex] = Physical]
    IN  SubSeq(o, 1, ir.caps) \o NewCapability \o SubSeq(o, ir.caps + 1, ir.exts)
        \o NewExtension \o SubSeq(o, ir.exts + 1, Len(o))

\* C5: for a logical module with caps <= exts, the patched stream is the
\* original with the addressing operand replaced, the capability instruction
\* at word caps and the extension instruction at word exts + 2, every other
\* word in its order; it is longer by the two instructions' word counts, and
\* a completely written out.spv holds it.
C5_PatchedStream ==
    (InPatch /\ pc \in PastInjection /\ ir.spirv[AddressingIndex] = Logical
        /\ ir.caps <= ir.exts) =>
        /\ copy = ExpectedPatch
        /\ SubSeq(copy, ir.caps + 1, ir.caps + 2) = NewCapability
        /\ SubSeq(copy, ir.exts + 2 + 1, ir.exts + 2 + Len(NewExtension)) = NewExtension
        /\ Len(copy) = Len(ir.spirv) + Len(NewCapability) + Len(NewExtension)
        /\ (pc = "done" /\ fail = "" /\ outFile.exists) =>
               outFile.data = StreamBytes(ExpectedPatch)

\* the end-to-end scenario: operand at offset 2, caps = 4, exts = 8
C5_Witness ==
    /\ InPatch
    /\ ir.memModel = 1 /\ ir.caps = 4 /\ ir.exts = 8
    /\ ir.spirv[AddressingIndex] = Logical
    /\ pc = "done" /\ fail = "" /\ outFile.exists
    /\ copy[3] = Physical

\* the 1-based indices of the markers whose line is not less than the target
NotLess(m, target) == {i \in 1 .. Len(m) : m[i].line >= target}

Minimum(S) == CHOOSE i \in S : \A j \in S : i <= j

\* C6: the resolver selects the first marker whose line is not less than the
\* target: exact when the lines are equal, inexact (flagged) when greater, the
\* first of equal markers, and "line not found" when every line is less.
C6_LowerBoundLookup ==
    (pc # "find" /\ file < Len(ir.sources)) =>
        LET m == ir.sources[file + 1]
            S == NotLess(m, line)
        IN  IF S = {}
            THEN fail = "LineNotFound" /\ lb = Len(m)
            ELSE /\ lb = Minimum(S) - 1
                 /\ fail # "LineNotFound"
                 /\ inexact = (m[Minimum(S)].line > line)
                 /\ m[Minimum(S)].function # 0 => pc = "write"

\* the table [5, 5, 10, 20]: 7 -> the marker at 10 (inexact), 20 -> 20
\* (exact), 25 -> not found, 0 -> the first marker at 5
C6_Witness ==
    /\ pc = "write" /\ file = 0 /\ Len(ir.sources) = 1
    /\ ir.sources[1] = <<Marker(5, 1), Marker(5, 1), Marker(10, 1), Marker(20, 1)>>
    /\ line = 7 /\ lb = 2 /\ inexact

\* C8: a run ends with out.spv holding the complete patched stream, or with
\* no out.spv at all.
C8_CompleteOutputOrNone ==
    pc \in {"done", "aborted"} =>
        \/ ~outFile.exists
        \/ /\ fail = ""
           /\ outFile.data = StreamBytes(copy)

\* C9: when readFile or writeFile has returned, the handle it opened is closed.
C9_HandlesReleased ==
    /\ pc \notin {"main", "seekEnd", "tell", "seekSet", "fread"} => rfile # "open"
    /\ pc \notin {"fwrite", "fclose"} => wfile # "open"

\* C10: after readFile returned {} for a failure, main stops: it does not go
\* on to parse or patch, and no output file is produced.
C10_ReadFailureStops ==
    readErr # "" =>
        /\ pc = "returned"
        /\ ~outFile.exists

====
